---- MODULE Spec2Model ----
(***************************************************************************)
(* Storefront client (src/src/App.js): the pricing rule getCustomPrice,    *)
(* the cart held by App (addToCart, updateQty, removeFromCart), the total  *)
(* the Cart view derives from it, and the Checkout view's submitOrder.     *)
(*                                                                         *)
(* Conventions.                                                            *)
(*  - Strings the code inspects (category, email, upi, card fields) are    *)
(*    sequences of one-character strings, so that String.includes and      *)
(*    .length are computed, not assumed.  Strings the code only copies or  *)
(*    shows (title, size, alert text) are TLA+ strings.                    *)
(*  - Prices are exact decimals with two places, held as integers in       *)
(*    hundredths: the raw price 109.95 is 10995 and the display price 250  *)
(*    is 25000.  Binary floating-point rounding is not modelled.           *)
(*  - One action is one browser event: the handler and the re-render React *)
(*    performs before the next event, so every handler reads the cart the  *)
(*    previous event left.                                                 *)
(***************************************************************************)
EXTENDS Integers, Sequences, FiniteSets

VARIABLES
    cart,       \* App: useState([]) -- the sequence of cart lines
    lastOp,     \* history: the cart operation of the latest event
    prevCart,   \* history: the cart that operation was applied to
    added,      \* history: ids ever passed to addToCart
    onlyAdds,   \* history: no updateQty / removeFromCart has been called yet
    form,       \* Checkout: useState({name, email, address})
    payment,    \* Checkout: useState("cod")
    upi,        \* Checkout: useState("")
    card,       \* Checkout: useState({number, expiry, cvv})
    alerts,     \* the alert() dialogs raised by the latest event, in order
    submitted,  \* history: the latest event was a click on "Pay & Place Order"
    attempt,    \* history: what the latest submission read, and what it and
                \* the submission before it reported
    quote,      \* Home: one catalog record and the price rendered for it
    routeId,    \* ProductDetails: useParams().id, 0 while the view is not mounted
    productState,  \* ProductDetails: const [product, setProduct] = useState(null)
    sizeState,     \* ProductDetails: const [size, setSize] = useState("")
    pending,    \* ProductDetails: ids whose lookup has been sent and not answered
    lookup,     \* history: the lookups the mounted view has sent, and their answers
    rendered,   \* App: the cart captured by the closures of the latest render
    expected,   \* history: the cart the calls made so far give one after the other
    calls       \* history: number of cart calls made apart from the events above

vars == <<cart, lastOp, prevCart, added, onlyAdds,
          form, payment, upi, card, alerts, submitted, attempt, quote,
          routeId, productState, sizeState, pending, lookup, rendered, expected, calls>>

cartVars == <<cart, lastOp, prevCart, added, onlyAdds>>
checkoutVars == <<form, payment, upi, card, alerts, submitted, attempt>>
detailVars == <<routeId, productState, sizeState, pending, lookup>>
batchVars == <<rendered, expected, calls>>

(***************************************************************************)
(* Bounds                                                                  *)
(***************************************************************************)
\* Largest quantity a line is driven to (addToCart stops there, updateQty
\* is given quantities up to it).
MaxQty == 2

\* Largest number of lookups one mounted detail view sends.
MaxLookups == 3

\* Largest number of cart calls made from handlers that hold the closures of
\* one render.
MaxCalls == 3

\* Raw prices given to the pricing rule range over -MaxPriceSteps..MaxPriceSteps
\* quarters of a currency unit.
MaxPriceSteps == 1000

(***************************************************************************)
(* JavaScript primitives                                                   *)
(***************************************************************************)
\* String.prototype.includes: t occurs in s as a contiguous substring.
Includes(s, t) ==
    \E k \in 0..(Len(s) - Len(t)) : SubSeq(s, k + 1, k + Len(t)) = t

\* The % operator: the remainder takes the sign of the dividend.
JsRem(a, b) == IF a >= 0 THEN a % b ELSE 0 - ((0 - a) % b)

\* A whole amount n in hundredths.
Units(n) == n * 100

Clothing == <<"c","l","o","t","h","i","n","g">>
Electronics == <<"e","l","e","c","t","r","o","n","i","c","s">>
Jewelery == <<"j","e","w","e","l","e","r","y">>
At == <<"@">>


(***************************************************************************)
(* Pricing rule                                                            *)
(***************************************************************************)
\* A slip in the order of the tests: electronics is looked for first.
getCustomPriceElectronicsFirst(product) ==
    LET base == product.price
        category == product.category
    IN  IF Includes(category, Electronics) THEN Units(20000) + base * 100
        ELSE IF Includes(category, Clothing) THEN Units(200) + JsRem(base, Units(100))
        ELSE IF Includes(category, Jewelery) THEN Units(5000) + base * 200
        ELSE Units(1000) + base * 50

\* getCustomPrice: the display price of a record with price and category.
getCustomPrice(product) ==
    LET base == product.price
        category == product.category
    IN  IF Includes(category, Clothing) THEN Units(200) + JsRem(base, Units(100))
        ELSE IF Includes(category, Electronics) THEN Units(20000) + base * 100
        ELSE IF Includes(category, Jewelery) THEN Units(5000) + base * 200
        ELSE Units(1000) + base * 50

(***************************************************************************)
(* Catalog records the views hand to the cart (the remote catalog's data   *)
(* is external; these are three records of it).                            *)
(***************************************************************************)
MensClothing == <<"m","e","n","'","s"," ">> \o Clothing

Catalog ==
    << [id |-> 1, title |-> "Shirt",   category |-> MensClothing, price |-> 5000],
       [id |-> 2, title |-> "Monitor", category |-> Electronics,  price |-> 10995],
       [id |-> 5, title |-> "Ring",    category |-> Jewelery,     price |-> 16800] >>

CatalogIds == {Catalog[k].id : k \in DOMAIN Catalog}

\* The values of the size state the model passes on: "" is its initial
\* value and M one of the select's options.
SizeInputs == {"", "M"}

\* handleAdd's argument: { ...product, size }.
WithSize(item, size) ==
    [id |-> item.id, title |-> item.title, category |-> item.category,
     price |-> item.price, size |-> size]

ProductInputs == {WithSize(Catalog[k], s) : k \in DOMAIN Catalog, s \in SizeInputs}

\* Quantities handed to updateQty: the number input's value, not checked.
QtyInputs == (0 - 1)..MaxQty

(***************************************************************************)
(* Cart store (App)                                                        *)
(***************************************************************************)
IdsOf(c) == {c[k].id : k \in 1..Len(c)}

\* { ...product, qty: 1 }
NewLine(product) ==
    [id |-> product.id, title |-> product.title, category |-> product.category,
     price |-> product.price, size |-> product.size, qty |-> 1]

\* Slips addToCart could make.
\* No merge: a line is appended whether or not the id is present.
addToCartAlwaysAppends(c, product) == Append(c, NewLine(product))

\* The spread of the old cart is forgotten when a new line is inserted.
addToCartDropsOthers(c, product) ==
    IF \E k \in 1..Len(c) : c[k].id = product.id
    THEN [k \in 1..Len(c) |->
             IF c[k].id = product.id THEN [c[k] EXCEPT !.qty = @ + 1] ELSE c[k]]
    ELSE <<NewLine(product)>>

\* The merged line takes the fields of the product passed: { ...i, ...product, qty: i.qty + 1 }.
addToCartOverwrites(c, product) ==
    IF \E k \in 1..Len(c) : c[k].id = product.id
    THEN [k \in 1..Len(c) |->
             IF c[k].id = product.id
             THEN [NewLine(product) EXCEPT !.qty = c[k].qty + 1]
             ELSE c[k]]
    ELSE Append(c, NewLine(product))

\* A new line is put first: [{ ...product, qty: 1 }, ...cart].
addToCartPrepends(c, product) ==
    IF \E k \in 1..Len(c) : c[k].id = product.id
    THEN [k \in 1..Len(c) |->
             IF c[k].id = product.id THEN [c[k] EXCEPT !.qty = @ + 1] ELSE c[k]]
    ELSE <<NewLine(product)>> \o c

\* addToCart, as a function of the cart its closure holds.
addToCart(c, product) ==
    LET found == \E k \in 1..Len(c) : c[k].id = product.id
    IN  IF found
        THEN [k \in 1..Len(c) |->
                 IF c[k].id = product.id THEN [c[k] EXCEPT !.qty = @ + 1] ELSE c[k]]
        ELSE Append(c, NewLine(product))

\* A slip updateQty could make: a line whose quantity reaches zero is dropped.
updateQtyDropsAtZero(c, id, qty) ==
    SelectSeq([k \in 1..Len(c) |->
                  IF c[k].id = id THEN [c[k] EXCEPT !.qty = qty] ELSE c[k]],
              LAMBDA i : i.qty > 0)

\* updateQty
updateQty(c, id, qty) ==
    [k \in 1..Len(c) |-> IF c[k].id = id THEN [c[k] EXCEPT !.qty = qty] ELSE c[k]]

\* A slip removeFromCart could make: the filter's test is inverted.
removeFromCartKeepsMatch(c, id) == SelectSeq(c, LAMBDA i : i.id = id)

\* removeFromCart
removeFromCart(c, id) == SelectSeq(c, LAMBDA i : i.id # id)

\* Cart view: cart.reduce((s, i) => s + getCustomPrice(i) * i.qty, 0)
RECURSIVE Reduce(_, _, _)
Reduce(c, k, s) ==
    IF k > Len(c) THEN s
    ELSE Reduce(c, k + 1, s + getCustomPrice(c[k]) * c[k].qty)

\* A slip the total could make: the quantity is left out of the sum.
RECURSIVE ReduceNoQty(_, _, _)
ReduceNoQty(c, k, s) ==
    IF k > Len(c) THEN s
    ELSE ReduceNoQty(c, k + 1, s + getCustomPrice(c[k]))

totalIgnoresQty == ReduceNoQty(cart, 1, 0)

total == Reduce(cart, 1, 0)

(***************************************************************************)
(* Initial state                                                           *)
(***************************************************************************)
NoOp == [op |-> "none", id |-> 0, size |-> "", qty |-> 0, run |-> 0, fresh |-> FALSE]

NoQuote == [price |-> 0, category |-> <<>>, rendered |-> FALSE, value |-> 0]

\* No submission yet.
NoAttempt == [read |-> <<>>, reported |-> <<>>, before |-> <<>>]

\* product === null
NoProduct == [id |-> 0, title |-> "", category |-> <<>>, price |-> 0]

\* The view has sent no lookup: sent counts the lookups sent, latest is the
\* answer to the one sent last, clean says every answer so far was a record.
NoLookup == [sent |-> 0, latest |-> "none", clean |-> TRUE]

InitCart ==
    /\ cart = <<>>
    /\ lastOp = NoOp
    /\ prevCart = <<>>
    /\ added = {}
    /\ onlyAdds = TRUE

InitCheckout ==
    /\ form = [name |-> <<>>, email |-> <<>>, address |-> <<>>]
    /\ payment = "cod"
    /\ upi = <<>>
    /\ card = [number |-> <<>>, expiry |-> <<>>, cvv |-> <<>>]
    /\ alerts = <<>>
    /\ submitted = FALSE
    /\ attempt = NoAttempt

\* ProductDetails is not mounted.
InitDetail ==
    /\ routeId = 0
    /\ productState = NoProduct
    /\ sizeState = ""
    /\ pending = {}
    /\ lookup = NoLookup

\* The first render captures the cart as it is.
InitRendered ==
    /\ rendered = cart
    /\ expected = cart
    /\ calls = 0

Init == InitCart /\ InitCheckout /\ quote = NoQuote /\ InitDetail /\ InitRendered

\* React re-renders App after the event: the closures capture the new cart.
Rerendered ==
    /\ rendered' = cart'
    /\ expected' = cart'
    /\ UNCHANGED calls

(***************************************************************************)
(* Cart events                                                             *)
(***************************************************************************)
\* A call addToCart(product), and the re-render that follows it.
AddToCart(product) ==
    /\ \A k \in 1..Len(cart) : cart[k].id = product.id => cart[k].qty < MaxQty
    /\ cart' = addToCart(cart, product)
    /\ prevCart' = cart
    /\ lastOp' =
         LET again == lastOp.op = "addToCart" /\ lastOp.id = product.id
         IN  [op |-> "addToCart", id |-> product.id, size |-> product.size, qty |-> 0,
              run |-> IF again THEN lastOp.run + 1 ELSE 1,
              fresh |-> IF again THEN lastOp.fresh ELSE product.id \notin IdsOf(cart)]
    /\ added' = added \cup {product.id}
    /\ Rerendered
    /\ UNCHANGED <<onlyAdds, checkoutVars, quote, detailVars>>

\* A call updateQty(id, qty), and the re-render that follows it.
UpdateQty(id, qty) ==
    /\ cart' = updateQty(cart, id, qty)
    /\ prevCart' = cart
    /\ lastOp' = [NoOp EXCEPT !.op = "updateQty", !.id = id, !.qty = qty]
    /\ onlyAdds' = FALSE
    /\ Rerendered
    /\ UNCHANGED <<added, checkoutVars, quote, detailVars>>

\* A call removeFromCart(id), and the re-render that follows it.
RemoveFromCart(id) ==
    /\ cart' = removeFromCart(cart, id)
    /\ prevCart' = cart
    /\ lastOp' = [NoOp EXCEPT !.op = "removeFromCart", !.id = id]
    /\ onlyAdds' = FALSE
    /\ Rerendered
    /\ UNCHANGED <<added, checkoutVars, quote, detailVars>>

Next ==
    \/ \E product \in ProductInputs : AddToCart(product)
    \/ \E id \in CatalogIds, qty \in QtyInputs : UpdateQty(id, qty)
    \/ \E id \in CatalogIds : RemoveFromCart(id)

Spec == Init /\ [][Next]_vars


(***************************************************************************)
(* Cart store: properties                                                  *)
(***************************************************************************)
\* The places of the lines of c that carry id.
Places(c, id) == {k \in 1..Len(c) : c[k].id = id}

IdSeq(c) == [k \in 1..Len(c) |-> c[k].id]

IsAdd == lastOp.op = "addToCart"
IsMerge == IsAdd /\ lastOp.id \in IdsOf(prevCart)
IsInsert == IsAdd /\ lastOp.id \notin IdsOf(prevCart)
IsUpdate == lastOp.op = "updateQty"
IsRemove == lastOp.op = "removeFromCart"

\* C1: in every state reachable from the empty cart by addToCart, updateQty
\* and removeFromCart calls, no two cart lines have the same id.
C1_UniqueIds ==
    \A i, j \in 1..Len(cart) : cart[i].id = cart[j].id => i = j

\* C1's case: a merge into a cart of three lines has happened.
C1_Witness == IsMerge /\ Len(cart) = 3

\* C2: after addToCart calls only, the ids in the cart are exactly the ids
\* ever passed to addToCart, each on one line.
C2_AddedIdsPresentOnce ==
    onlyAdds =>
        /\ IdsOf(cart) = added
        /\ \A id \in added : Cardinality(Places(cart, id)) = 1

\* C2's case: three ids were added, one of them twice, and nothing else called.
C2_Witness ==
    /\ onlyAdds
    /\ Cardinality(added) = 3
    /\ \E k \in 1..Len(cart) : cart[k].qty = 2

\* C3: addToCart of an id already present adds exactly 1 to that line's qty
\* and leaves its other fields, its place and every other line as they
\* were, whatever size the product passed carries; two addToCart calls in a
\* row for an id that was absent leave exactly one line with it, of qty 2.
C3_MergeOnlyIncrements ==
    /\ IsMerge =>
         /\ Len(cart) = Len(prevCart)
         /\ \A k \in 1..Len(prevCart) :
              IF prevCart[k].id = lastOp.id
              THEN /\ cart[k].qty = prevCart[k].qty + 1
                   /\ cart[k].id = prevCart[k].id
                   /\ cart[k].size = prevCart[k].size
                   /\ cart[k].category = prevCart[k].category
                   /\ cart[k].title = prevCart[k].title
                   /\ cart[k].price = prevCart[k].price
              ELSE cart[k] = prevCart[k]
    /\ (IsAdd /\ lastOp.fresh /\ lastOp.run = 2) =>
         /\ Cardinality(Places(cart, lastOp.id)) = 1
         /\ \A k \in Places(cart, lastOp.id) : cart[k].qty = 2

\* C3's case: the id was added twice in a row, the second time with a size
\* other than the one its line carries.
C3_Witness ==
    /\ IsAdd /\ lastOp.fresh /\ lastOp.run = 2
    /\ \E k \in 1..Len(cart) : cart[k].id = lastOp.id /\ cart[k].size # lastOp.size
    /\ Len(cart) >= 2

\* C4: addToCart of an absent id appends a line of qty 1 after the lines
\* already there; a merge, updateQty and removeFromCart keep the lines that
\* remain in the order they had.
C4_FirstAddOrder ==
    /\ IsInsert =>
         /\ Len(cart) = Len(prevCart) + 1
         /\ \A k \in 1..Len(prevCart) : cart[k] = prevCart[k]
         /\ cart[Len(cart)].id = lastOp.id
         /\ cart[Len(cart)].qty = 1
    /\ (IsMerge \/ IsUpdate \/ IsRemove) =>
         IdSeq(cart) = SelectSeq(IdSeq(prevCart), LAMBDA x : x \in IdsOf(cart))

\* C4's case: an absent id was added to a cart that held two lines.
C4_Witness == IsInsert /\ Len(prevCart) = 2

\* C5: updateQty(id, q) sets the qty of the line with that id to q, for
\* every q including 0 and negatives, and changes no other field, no other
\* line and not the number of lines; with no such line the cart is as it was.
C5_UpdateQtyFrame ==
    IsUpdate =>
        /\ Len(cart) = Len(prevCart)
        /\ \A k \in 1..Len(prevCart) :
             IF prevCart[k].id = lastOp.id
             THEN cart[k] = [prevCart[k] EXCEPT !.qty = lastOp.qty]
             ELSE cart[k] = prevCart[k]
        /\ (lastOp.id \notin IdsOf(prevCart) => cart = prevCart)

\* C5's case: a line of a cart of several lines was given a quantity <= 0.
C5_Witness ==
    /\ IsUpdate /\ lastOp.qty <= 0
    /\ lastOp.id \in IdsOf(prevCart)
    /\ Len(prevCart) >= 2

\* C6: after removeFromCart(id) no line carries id and the other lines are
\* there unchanged; when no line carried it the cart is as it was.
C6_RemoveFrame ==
    IsRemove =>
        LET kept == {k \in 1..Len(prevCart) : prevCart[k].id # lastOp.id}
        IN  /\ Places(cart, lastOp.id) = {}
            /\ Len(cart) = Cardinality(kept)
            /\ \A k \in kept : cart[Cardinality({j \in kept : j <= k})] = prevCart[k]
            /\ (lastOp.id \notin IdsOf(prevCart) => cart = prevCart)

\* C6's case: the middle line of a cart of three was removed.
C6_Witness ==
    /\ IsRemove
    /\ Len(prevCart) = 3
    /\ prevCart[2].id = lastOp.id

\* C12: in every cart state reached through add, the quantity input of the
\* cart view and remove, every line has qty >= 1.
C12_QtyAtLeastOne ==
    \A k \in 1..Len(cart) : cart[k].qty >= 1

\* The sum, over a set of places of the cart, of display price times qty.
RECURSIVE SumOver(_)
SumOver(S) ==
    IF S = {} THEN 0
    ELSE LET k == CHOOSE x \in S : TRUE
         IN  getCustomPrice(cart[k]) * cart[k].qty + SumOver(S \ {k})

\* C7: the total shown is the sum over the current lines of the display
\* price of the line times its qty; 0 for the empty cart, and 500 for one
\* clothing line of raw price 50 and qty 2.
C7_TotalIsSum ==
    /\ total = SumOver(1..Len(cart))
    /\ (cart = <<>> => total = 0)
    /\ (/\ Len(cart) = 1
        /\ Includes(cart[1].category, Clothing)
        /\ cart[1].price = Units(50)
        /\ cart[1].qty = 2) => total = Units(500)

\* C7's case: the scenario's cart, reached through a quantity edit.
C7_Witness ==
    /\ Len(cart) = 1
    /\ Includes(cart[1].category, Clothing)
    /\ cart[1].price = Units(50)
    /\ cart[1].qty = 2
    /\ IsUpdate
    /\ ~onlyAdds


(***************************************************************************)
(* Pricing rule on catalog records (Home renders getCustomPrice(p) for     *)
(* every record the catalog returns)                                       *)
(***************************************************************************)
Books == <<"b","o","o","k","s">>
CapitalClothing == <<"C","l","o","t","h","i","n","g">>

CategoryInputs ==
    { <<>>, Clothing, MensClothing, Electronics, Jewelery, Books, CapitalClothing,
      Electronics \o <<" ">> \o Clothing,
      Jewelery \o <<"/">> \o Clothing,
      Jewelery \o <<" ">> \o Electronics }

\* Raw prices, in hundredths: every quarter unit from -MaxPriceSteps/4 to
\* MaxPriceSteps/4.
PriceInputs == {25 * k : k \in (0 - MaxPriceSteps)..MaxPriceSteps}

InitPrice ==
    /\ InitCart
    /\ InitCheckout
    /\ InitDetail
    /\ InitRendered
    /\ quote \in {[price |-> p, category |-> c, rendered |-> FALSE, value |-> 0] :
                     p \in PriceInputs, c \in CategoryInputs}

\* Home's render of one record: <p>{getCustomPrice(p)}</p>.
RenderPrice ==
    /\ ~quote.rendered
    /\ quote' = [quote EXCEPT
                    !.rendered = TRUE,
                    !.value = getCustomPrice([price |-> quote.price,
                                              category |-> quote.category])]
    /\ UNCHANGED <<cartVars, checkoutVars, detailVars, batchVars>>

NextPrice == RenderPrice

SpecPrice == InitPrice /\ [][NextPrice]_vars

\* C8: for any raw price, of any sign, and any category containing
\* "clothing", the display price v has 200 <= v < 300.
C8_ClothingInRange ==
    (quote.rendered /\ Includes(quote.category, Clothing)) =>
        (Units(200) <= quote.value /\ quote.value < Units(300))

\* C9: the branch is chosen by substring containment, first match in the
\* order clothing, electronics, jewelery, default: clothing gives
\* 200 + (p rem 100) whatever else the category contains, else electronics
\* gives 20000 + 100p, else jewelery gives 5000 + 200p, and every other
\* category, the empty one included, gives 1000 + 50p.
C9_FirstMatchWins ==
    quote.rendered =>
        LET c == quote.category
            p == quote.price
            v == quote.value
            cl == Includes(c, Clothing)
            el == Includes(c, Electronics)
            jw == Includes(c, Jewelery)
        IN  /\ cl => v = Units(200) + JsRem(p, Units(100))
            /\ (~cl /\ el) => v = Units(20000) + 100 * p
            /\ (~cl /\ ~el /\ jw) => v = Units(5000) + 200 * p
            /\ (~cl /\ ~el /\ ~jw) => v = Units(1000) + 50 * p
            /\ (c = <<>> => v = Units(1000) + 50 * p)

\* C9's case: a category naming electronics and then clothing was priced.
C9_Witness ==
    /\ quote.rendered
    /\ quote.category = Electronics \o <<" ">> \o Clothing
    /\ quote.price = Units(50)
    /\ quote.value = Units(250)

(***************************************************************************)
(* Checkout                                                                *)
(***************************************************************************)
Digits(n) == [k \in 1..n |-> "4"]

NameInputs == { <<>>, <<"A">> }
EmailInputs == { <<>>, <<"a","b">>, <<"a","@","b",".","c","o","m">> }
AddressInputs == { <<>>, <<"X">> }
PaymentInputs == {"cod", "upi", "card"}
UpiInputs == { <<>>, <<"a","b","c">>, <<"a","b","c","d">>, <<"a","@","u","p","i">> }
CardNumberInputs == { <<>>, Digits(11), Digits(12) }
ExpiryInputs == { <<>>, <<"1","2","/","3","0">> }
CvvInputs == { <<>>, Digits(2), Digits(3) }

\* A slip submitOrder could make: the cart is tested before the form.
submitOrderCartFirst(f, method, upiId, c, lines) ==
    IF Len(lines) = 0 THEN <<"Cart is empty">>
    ELSE IF f.name = <<>> \/ f.email = <<>> \/ f.address = <<>>
    THEN <<"Please fill all address details">>
    ELSE IF ~Includes(f.email, At) THEN <<"Invalid email">>
    ELSE IF method = "upi" /\ Len(upiId) < 5 THEN <<"Enter valid UPI ID">>
    ELSE IF method = "card"
            /\ (Len(c.number) < 12 \/ c.expiry = <<>> \/ Len(c.cvv) < 3)
    THEN <<"Enter valid card details">>
    ELSE IF method = "cod"
    THEN <<"Order placed successfully (Cash on Delivery)">>
    ELSE <<"Payment successful! Order placed">>

\* A slip submitOrder could make: the UPI id is tested whatever the method.
submitOrderUpiAlways(f, method, upiId, c, lines) ==
    IF f.name = <<>> \/ f.email = <<>> \/ f.address = <<>>
    THEN <<"Please fill all address details">>
    ELSE IF ~Includes(f.email, At) THEN <<"Invalid email">>
    ELSE IF Len(lines) = 0 THEN <<"Cart is empty">>
    ELSE IF Len(upiId) < 5 THEN <<"Enter valid UPI ID">>
    ELSE IF method = "card"
            /\ (Len(c.number) < 12 \/ c.expiry = <<>> \/ Len(c.cvv) < 3)
    THEN <<"Enter valid card details">>
    ELSE IF method = "cod"
    THEN <<"Order placed successfully (Cash on Delivery)">>
    ELSE <<"Payment successful! Order placed">>

\* submitOrder: the alert() calls one run makes, in order.
submitOrder(f, method, upiId, c, lines) ==
    IF f.name = <<>> \/ f.email = <<>> \/ f.address = <<>>
    THEN <<"Please fill all address details">>
    ELSE IF ~Includes(f.email, At) THEN <<"Invalid email">>
    ELSE IF Len(lines) = 0 THEN <<"Cart is empty">>
    ELSE IF method = "upi" /\ Len(upiId) < 5 THEN <<"Enter valid UPI ID">>
    ELSE IF method = "card"
            /\ (Len(c.number) < 12 \/ c.expiry = <<>> \/ Len(c.cvv) < 3)
    THEN <<"Enter valid card details">>
    ELSE IF method = "cod"
    THEN <<"Order placed successfully (Cash on Delivery)">>
    ELSE <<"Payment successful! Order placed">>

\* The carts the Checkout view is mounted over: the empty cart and carts
\* the cart events above build (after adds, and after a quantity edit to 0).
CheckoutCarts ==
    { <<>>,
      addToCart(<<>>, WithSize(Catalog[1], "M")),
      addToCart(addToCart(<<>>, WithSize(Catalog[2], "")), WithSize(Catalog[3], "")),
      updateQty(addToCart(<<>>, WithSize(Catalog[2], "")), Catalog[2].id, 0) }

InitAtCheckout ==
    /\ cart \in CheckoutCarts
    /\ lastOp = NoOp
    /\ prevCart = <<>>
    /\ added = IdsOf(cart)
    /\ onlyAdds = TRUE
    /\ InitCheckout
    /\ quote = NoQuote
    /\ InitDetail
    /\ InitRendered

\* An edit of the form leaves no alert open; of the submission before it
\* only what that one reported is remembered.
Edited ==
    /\ alerts' = <<>>
    /\ submitted' = FALSE
    /\ attempt' = [NoAttempt EXCEPT !.reported = attempt.reported]
    /\ UNCHANGED <<cartVars, quote, detailVars, batchVars>>

SetName(v) ==
    /\ form' = [form EXCEPT !.name = v]
    /\ UNCHANGED <<payment, upi, card>>
    /\ Edited

SetEmail(v) ==
    /\ form' = [form EXCEPT !.email = v]
    /\ UNCHANGED <<payment, upi, card>>
    /\ Edited

SetAddress(v) ==
    /\ form' = [form EXCEPT !.address = v]
    /\ UNCHANGED <<payment, upi, card>>
    /\ Edited

\* A radio button fires onChange when it becomes the checked one.
SetPayment(m) ==
    /\ m # payment
    /\ payment' = m
    /\ UNCHANGED <<form, upi, card>>
    /\ Edited

\* The UPI input is rendered only while payment = "upi".
SetUpi(v) ==
    /\ payment = "upi"
    /\ upi' = v
    /\ UNCHANGED <<form, payment, card>>
    /\ Edited

\* The card inputs are rendered only while payment = "card".
SetCardNumber(v) ==
    /\ payment = "card"
    /\ card' = [card EXCEPT !.number = v]
    /\ UNCHANGED <<form, payment, upi>>
    /\ Edited

SetCardExpiry(v) ==
    /\ payment = "card"
    /\ card' = [card EXCEPT !.expiry = v]
    /\ UNCHANGED <<form, payment, upi>>
    /\ Edited

SetCardCvv(v) ==
    /\ payment = "card"
    /\ card' = [card EXCEPT !.cvv = v]
    /\ UNCHANGED <<form, payment, upi>>
    /\ Edited

\* The two texts submitOrder reports a placed order with.
SuccessMessages ==
    {"Order placed successfully (Cash on Delivery)", "Payment successful! Order placed"}

\* The history a submission leaves: what it read, what it reported, and what
\* the submission before it reported.
Attempted ==
    attempt' = [read |-> <<cart, form, payment, upi, card>>,
                reported |-> alerts',
                before |-> attempt.reported]

\* A slip the click could make: a placed order empties the cart.
SubmitOrderClearsCart ==
    /\ alerts' = submitOrder(form, payment, upi, card, cart)
    /\ submitted' = TRUE
    /\ Attempted
    /\ cart' = IF alerts'[1] \in SuccessMessages THEN <<>> ELSE cart
    /\ Rerendered
    /\ UNCHANGED <<lastOp, prevCart, added, onlyAdds,
                   form, payment, upi, card, quote, detailVars>>

\* A click on "Pay & Place Order".
SubmitOrder ==
    /\ alerts' = submitOrder(form, payment, upi, card, cart)
    /\ submitted' = TRUE
    /\ Attempted
    /\ UNCHANGED <<cartVars, form, payment, upi, card, quote, detailVars, batchVars>>

NextCheckout ==
    \/ \E v \in NameInputs : SetName(v)
    \/ \E v \in EmailInputs : SetEmail(v)
    \/ \E v \in AddressInputs : SetAddress(v)
    \/ \E m \in PaymentInputs : SetPayment(m)
    \/ \E v \in UpiInputs : SetUpi(v)
    \/ \E v \in CardNumberInputs : SetCardNumber(v)
    \/ \E v \in ExpiryInputs : SetCardExpiry(v)
    \/ \E v \in CvvInputs : SetCardCvv(v)
    \/ SubmitOrder

SpecCheckout == InitAtCheckout /\ [][NextCheckout]_vars

\* The five rules of the validation, by number, on the state submitted.
RuleFails(k) ==
    CASE k = 1 -> form.name = <<>> \/ form.email = <<>> \/ form.address = <<>>
      [] k = 2 -> ~Includes(form.email, At)
      [] k = 3 -> Len(cart) = 0
      [] k = 4 -> payment = "upi" /\ Len(upi) < 5
      [] k = 5 -> payment = "card"
                    /\ (Len(card.number) < 12 \/ card.expiry = <<>> \/ Len(card.cvv) < 3)

Reason(k) ==
    CASE k = 1 -> "Please fill all address details"
      [] k = 2 -> "Invalid email"
      [] k = 3 -> "Cart is empty"
      [] k = 4 -> "Enter valid UPI ID"
      [] k = 5 -> "Enter valid card details"

FailingRules == {k \in 1..5 : RuleFails(k)}

\* C10: a submission reports exactly one outcome; a failure reports the
\* reason of the first failing rule in the order shipping field empty, email
\* without "@", cart empty, short UPI id, invalid card; an empty name with an
\* empty cart reports the shipping reason, and valid shipping, a non-empty
\* cart and the UPI id "abc" report the UPI reason.
C10_FirstFailingRuleReported ==
    submitted =>
        /\ Len(alerts) = 1
        /\ \A k \in FailingRules :
             (\A j \in FailingRules : k <= j) => alerts[1] = Reason(k)
        /\ (form.name = <<>> /\ cart = <<>>) => alerts[1] = Reason(1)
        /\ (/\ form = [name |-> <<"A">>, email |-> <<"a","@","b",".","c","o","m">>,
                       address |-> <<"X">>]
            /\ cart # <<>>
            /\ payment = "upi"
            /\ upi = <<"a","b","c">>) => alerts[1] = Reason(4)

\* C10's case: a submission with an empty name over the empty cart, while a
\* short UPI id is entered as well.
C10_Witness ==
    /\ submitted
    /\ form.name = <<>>
    /\ cart = <<>>
    /\ payment = "upi"
    /\ upi = <<"a","b","c">>
    /\ Cardinality(FailingRules) >= 3


\* C11: a submission reports success exactly when none of the five rules
\* fails on the cart as it is at the submission; so never over the empty
\* cart, and the fields of a payment method that is not the selected one
\* never make it fail.
C11_SuccessIffNoRuleFails ==
    submitted =>
        LET success == Len(alerts) = 1 /\ alerts[1] \in SuccessMessages
            shippingOk == /\ form.name # <<>> /\ form.email # <<>> /\ form.address # <<>>
                          /\ Includes(form.email, At)
        IN  /\ success <=> FailingRules = {}
            /\ success => cart # <<>>
            /\ (shippingOk /\ cart # <<>> /\ payment = "cod") => success
            /\ (shippingOk /\ cart # <<>> /\ payment = "upi" /\ Len(upi) >= 5) => success
            /\ (/\ shippingOk /\ cart # <<>> /\ payment = "card"
                /\ Len(card.number) >= 12 /\ card.expiry # <<>> /\ Len(card.cvv) >= 3)
                   => success
            /\ success =>
                 alerts[1] = IF payment = "cod"
                             THEN "Order placed successfully (Cash on Delivery)"
                             ELSE "Payment successful! Order placed"

\* C11's case: a cash-on-delivery order was placed while a short UPI id and
\* a short card number, typed earlier, are still held.
C11_Witness ==
    /\ submitted
    /\ alerts = <<"Order placed successfully (Cash on Delivery)">>
    /\ payment = "cod"
    /\ upi = <<"a","b","c">>
    /\ card.number = Digits(11)
    /\ cart # <<>>

\* C16: a submission, whatever it reports, leaves the cart, the shipping
\* form, the payment method and the UPI and card fields as they were; a
\* submission after the rule that failed last time has been put right does
\* not report that rule again.
C16_SubmissionChangesNothing ==
    submitted =>
        /\ attempt.read = <<cart, form, payment, upi, card>>
        /\ attempt.reported = alerts
        /\ \A k \in 1..5 :
             (attempt.before = <<Reason(k)>> /\ ~RuleFails(k)) => alerts # <<Reason(k)>>

\* C16's case: the submission before reported the short UPI id, the id was
\* put right, and this one placed the order over the same cart.
C16_Witness ==
    /\ submitted
    /\ attempt.before = <<Reason(4)>>
    /\ alerts = <<"Payment successful! Order placed">>
    /\ Len(cart) = 2


(***************************************************************************)
(* ProductDetails                                                          *)
(***************************************************************************)
\* The route ids the detail view is opened with: a clothing record and one
\* that is not.
DetailIds == {Catalog[1].id, Catalog[2].id}

\* The record the catalog answers a lookup of id with.
CatalogRecord(id) == CHOOSE item \in {Catalog[k] : k \in DOMAIN Catalog} : item.id = id

\* The values of the size select.
SizeOptions == {"", "S", "M", "L", "XL"}

\* const isClothing = product.category.includes("clothing")
isClothing(p) == Includes(p.category, Clothing)

\* What the view renders: if (!product) return <h3>Loading...</h3>; else the record.
DetailView == IF productState = NoProduct THEN "Loading..." ELSE "details"

\* A slip handleAdd could make: the size is never asked for.
sizeMissingNever(p, s) == FALSE

\* handleAdd's test: isClothing && !size
sizeMissing(p, s) == isClothing(p) /\ s = ""

\* An event of the view that calls no cart operation and raises no alert.
DetailEvent ==
    /\ lastOp' = NoOp
    /\ prevCart' = cart
    /\ alerts' = <<>>
    /\ UNCHANGED <<cart, added, onlyAdds, form, payment, upi, card, submitted,
                   attempt, quote, batchVars>>

\* The route becomes /product/id from another view: the view mounts, and its
\* effect sends the lookup.
OpenProduct(id) ==
    /\ routeId = 0
    /\ routeId' = id
    /\ productState' = NoProduct
    /\ sizeState' = ""
    /\ pending' = {[n |-> 1, id |-> id]}
    /\ lookup' = [sent |-> 1, latest |-> "waiting", clean |-> TRUE]
    /\ DetailEvent

\* The route goes from one /product/:id to another (a jump in the browser's
\* history): the view stays mounted with its state, and the effect, whose
\* dependency is id, sends a lookup for the new id.
ChangeProduct(id) ==
    /\ routeId # 0
    /\ id # routeId
    /\ lookup.sent < MaxLookups
    /\ routeId' = id
    /\ pending' = pending \cup {[n |-> lookup.sent + 1, id |-> id]}
    /\ lookup' = [lookup EXCEPT !.sent = @ + 1, !.latest = "waiting"]
    /\ UNCHANGED <<productState, sizeState>>
    /\ DetailEvent

\* The route leaves /product/:id: the view unmounts and its state is gone;
\* answers that arrive later set nothing.
CloseProduct ==
    /\ routeId # 0
    /\ routeId' = 0
    /\ productState' = NoProduct
    /\ sizeState' = ""
    /\ pending' = {}
    /\ lookup' = NoLookup
    /\ DetailEvent

\* The history of an answer to request r.
Answered(r, how) ==
    lookup' = [lookup EXCEPT !.latest = IF r.n = lookup.sent THEN how ELSE @,
                             !.clean = @ /\ how = "found"]

\* An answer arrives with the record: .then((d) => setProduct(d)).
LookupFound(r) ==
    /\ r \in pending
    /\ productState' = CatalogRecord(r.id)
    /\ pending' = pending \ {r}
    /\ Answered(r, "found")
    /\ UNCHANGED <<routeId, sizeState>>
    /\ DetailEvent

\* The catalog answers null for an id it does not hold: setProduct(null).
LookupNotFound(r) ==
    /\ r \in pending
    /\ productState' = NoProduct
    /\ pending' = pending \ {r}
    /\ Answered(r, "notfound")
    /\ UNCHANGED <<routeId, sizeState>>
    /\ DetailEvent

\* The request fails or its body is no JSON: the promise is rejected and
\* nothing handles it.
LookupFails(r) ==
    /\ r \in pending
    /\ pending' = pending \ {r}
    /\ Answered(r, "failed")
    /\ UNCHANGED <<routeId, productState, sizeState>>
    /\ DetailEvent

\* The size select, rendered only with a clothing record: setSize(e.target.value).
SelectSize(s) ==
    /\ productState # NoProduct
    /\ isClothing(productState)
    /\ s # sizeState
    /\ sizeState' = s
    /\ UNCHANGED <<routeId, productState, pending, lookup>>
    /\ DetailEvent

\* A click on "Add to Cart", rendered once a record is held: handleAdd.
HandleAdd ==
    /\ productState # NoProduct
    /\ \A k \in 1..Len(cart) : cart[k].id = productState.id => cart[k].qty < MaxQty
    /\ lastOp' = [NoOp EXCEPT !.op = "handleAdd", !.id = productState.id,
                              !.size = sizeState]
    /\ prevCart' = cart
    /\ IF sizeMissing(productState, sizeState)
       THEN /\ alerts' = <<"Please select a size">>
            /\ UNCHANGED <<cart, added, batchVars>>
       ELSE /\ cart' = addToCart(rendered, WithSize(productState, sizeState))
            /\ added' = added \cup {productState.id}
            /\ alerts' = <<>>
            /\ Rerendered
    /\ UNCHANGED <<onlyAdds, form, payment, upi, card, submitted, attempt, quote,
                   detailVars>>

NextDetails ==
    \/ \E id \in DetailIds : OpenProduct(id)
    \/ \E id \in DetailIds : ChangeProduct(id)
    \/ CloseProduct
    \/ \E r \in pending : LookupFound(r)
    \/ \E r \in pending : LookupNotFound(r)
    \/ \E r \in pending : LookupFails(r)
    \/ \E s \in SizeOptions : SelectSize(s)
    \/ HandleAdd

SpecDetails == Init /\ [][NextDetails]_vars

\* C13: every cart line whose category does not contain "clothing" carries
\* no size (stated here in its weakest reading: no non-empty size value),
\* also after the view showed a clothing record with a size selected.
C13_SizeOnlyOnClothing ==
    \A k \in 1..Len(cart) : ~isClothing(cart[k]) => cart[k].size = ""

\* C15: when the lookup sent last has failed or found nothing, and nothing
\* is in flight, the view shows a state that is neither the loading state
\* nor a loaded record.
C15_FailureShowsNoData ==
    (routeId # 0 /\ pending = {} /\ lookup.latest \in {"failed", "notfound"}) =>
        (DetailView # "Loading..." /\ DetailView # "details")

\* C17: once every lookup in flight has been answered with its record, the
\* record held, which is the one handleAdd adds, is that of the route id
\* requested last, whatever the order of the answers.
C17_LatestLookupWins ==
    (routeId # 0 /\ pending = {} /\ lookup.sent >= 1 /\ lookup.clean) =>
        productState.id = routeId

\* C18: handleAdd on a clothing record with no size selected leaves the cart
\* as it was, so every clothing line added through the view carries one of
\* the sizes S, M, L, XL.
C18_ClothingNeedsSize ==
    /\ (lastOp.op = "handleAdd" /\ isClothing(productState) /\ sizeState = "") =>
          (cart = prevCart /\ alerts = <<"Please select a size">>)
    /\ \A k \in 1..Len(cart) :
          isClothing(cart[k]) => cart[k].size \in {"S", "M", "L", "XL"}

\* C18's case: the add was refused on a clothing record with no size, with
\* a clothing line already in the cart.
C18_Witness ==
    /\ lastOp.op = "handleAdd"
    /\ isClothing(productState)
    /\ sizeState = ""
    /\ \E k \in 1..Len(cart) : isClothing(cart[k])


(***************************************************************************)
(* The cart operations as the context hands them out: closures over the    *)
(* cart of the render that created them.  A consumer that calls two of     *)
(* them in one handler, or before React has re-rendered, calls closures of *)
(* the same render.                                                        *)
(***************************************************************************)
\* The history a call leaves.
Called ==
    /\ calls < MaxCalls
    /\ calls' = calls + 1
    /\ UNCHANGED <<rendered, lastOp, prevCart, added, onlyAdds,
                   checkoutVars, quote, detailVars>>

\* addToCart(product): setCart of a cart computed from the closure's cart.
CallAddToCart(p) ==
    /\ cart' = addToCart(rendered, p)
    /\ expected' = addToCart(expected, p)
    /\ Called

\* updateQty(id, qty)
CallUpdateQty(id, qty) ==
    /\ cart' = updateQty(rendered, id, qty)
    /\ expected' = updateQty(expected, id, qty)
    /\ Called

\* removeFromCart(id)
CallRemoveFromCart(id) ==
    /\ cart' = removeFromCart(rendered, id)
    /\ expected' = removeFromCart(expected, id)
    /\ Called

\* React re-renders App: the context value holds closures over the new cart.
Render ==
    /\ rendered # cart
    /\ rendered' = cart
    /\ UNCHANGED <<cartVars, expected, calls, checkoutVars, quote, detailVars>>

NextBatched ==
    \/ \E p \in ProductInputs : CallAddToCart(p)
    \/ \E id \in CatalogIds, qty \in QtyInputs : CallUpdateQty(id, qty)
    \/ \E id \in CatalogIds : CallRemoveFromCart(id)
    \/ Render

SpecBatched == Init /\ [][NextBatched]_vars

\* C14: every cart operation is applied to the cart the operation before it
\* left, also when it is called before the view has re-rendered: the cart
\* is the one the calls give one after the other, and no update is lost.
C14_ReadYourWrites == cart = expected

====
